---- MODULE Spec2Model ----
(***************************************************************************)
(* A model of fesql::parser's AST layer (src/parser/node.h): the intrusive *)
(* SQLNodeList, the SQLNode class family with its constructors and         *)
(* destructors, the debug printer and the ConstNode literal.               *)
(*                                                                         *)
(* Pointers are naturals: NULL is 0, an object's address is its index in   *)
(* the heap.  An indeterminate pointer (a member no constructor            *)
(* initialises) is drawn by the constructor action from Indeterminate.     *)
(* Output streams are sequences of the pieces written to them.             *)
(***************************************************************************)
EXTENDS Integers, Sequences, FiniteSets, TLC

NULL == 0
WILD == -1

\* Bounds of the list machine (Spec).
MaxLists == 3
MaxLinked == 3

\* Bounds of the tree machine (SpecTree).
TreeMaxObjs == 2
TreeMaxLists == 2
TreeMaxLinked == 1

\* Bound of the frame machine (SpecFrame).
FrameMaxObjs == 4

\* Bounds of the printer machine (SpecPrint).
PrintMaxObjs == 2
PrintMaxLists == 1

\* Bounds of the literal machine (SpecLiteral).
MaxLiterals == 2
MaxBuffers == 2

VARIABLES
    heap,      \* the objects of the parser's heap (see EmptyHeap)
    call,      \* the last call the caller made, with its arguments
    consumed,  \* the lists the caller has handed over
    pushed,    \* per list: what was pushed on it, and whether only pushes built it
    given,     \* the nodes the caller has handed over
    del,       \* the deletes made so far (see NoDeletes)
    own,       \* per node (n) and list (l): the nodes and linked nodes handed to it
    made,      \* per node: the constructor that made it
    mem,       \* the character buffers (see the literal machine)
    input      \* per literal node: the value its constructor was given

vars == <<heap, call, consumed, pushed, given, del, own, made, mem, input>>

\* The variables of the literal machine alone.
literalVars == <<mem, input>>


(***************************************************************************)
(* The heap.  head_, tail_, size_ are the fields of the SQLNodeList        *)
(* objects, next_ and node_ptr_ those of the SQLLinkedNode objects, obj    *)
(* the SQLNode objects; nlists, nlinked, nobj count the allocations.       *)
(***************************************************************************)
EmptyHeap ==
    [head_ |-> <<>>, tail_ |-> <<>>, size_ |-> <<>>,
     next_ |-> <<>>, node_ptr_ |-> <<>>, obj |-> <<>>]

nlists(H) == Len(H.head_)
nlinked(H) == Len(H.next_)
nobj(H) == Len(H.obj)

\* SQLNodeList() : size_(0), head_(NULL), tail_(NULL)
SQLNodeList(H) ==
    [H EXCEPT !.head_ = Append(@, NULL), !.tail_ = Append(@, NULL),
              !.size_ = Append(@, 0)]

\* SQLLinkedNode(node_ptr): node_ptr_ = node_ptr; next_ = NULL
SQLLinkedNode(H, node_ptr) ==
    [H EXCEPT !.node_ptr_ = Append(@, node_ptr), !.next_ = Append(@, NULL)]

\* ConstNode(int val) : SQLNode(kInt, 0, 0) { val_.vint = val; }
ConstNodeInt(H, val) ==
    [H EXCEPT !.obj = Append(@, [cls |-> "ConstNode", type_ |-> "kInt",
                                 val_ |-> [vint |-> val]])]

\* PushFront with the new node linked behind the head instead of before it.
PushFrontSwapped(H, l, node_ptr) ==
    LET H1 == SQLLinkedNode(H, node_ptr)
        linked_node_ptr == nlinked(H1)
    IN  IF H1.head_[l] = NULL
        THEN [H1 EXCEPT !.head_[l] = linked_node_ptr,
                        !.tail_[l] = linked_node_ptr, !.size_[l] = @ + 1]
        ELSE [H1 EXCEPT !.next_[linked_node_ptr] = H1.next_[H1.head_[l]],
                        !.next_[H1.head_[l]] = linked_node_ptr,
                        !.tail_[l] = IF H1.tail_[l] = H1.head_[l]
                                     THEN linked_node_ptr ELSE @,
                        !.size_[l] = @ + 1]

\* SQLNodeList::PushFront
PushFront(H, l, node_ptr) ==
    LET H1 == SQLLinkedNode(H, node_ptr)
        linked_node_ptr == nlinked(H1)
        H2 == [H1 EXCEPT !.next_[linked_node_ptr] = H1.head_[l]]
        H3 == [H2 EXCEPT !.head_[l] = linked_node_ptr]
        H4 == [H3 EXCEPT !.size_[l] = @ + 1]
    IN  IF H4.tail_[l] = NULL
        THEN [H4 EXCEPT !.tail_[l] = H4.head_[l]]
        ELSE H4

\* SQLNodeList::AppendNodeList
AppendNodeList(H, l, node_list_ptr) ==
    IF node_list_ptr = NULL
    THEN H
    ELSE IF H.tail_[l] = NULL
    THEN [H EXCEPT !.head_[l] = H.head_[node_list_ptr],
                   !.tail_[l] = H.head_[node_list_ptr],
                   !.size_[l] = H.size_[node_list_ptr]]
    ELSE LET H1 == [H EXCEPT !.next_[H.tail_[l]] = H.head_[node_list_ptr]]
             H2 == [H1 EXCEPT !.tail_[l] = H1.tail_[node_list_ptr]]
         IN  [H2 EXCEPT !.size_[l] = @ + H2.size_[node_list_ptr]]

\* SQLNodeList::Size
Size(H, l) == H.size_[l]

\* SQLNodeList::GetHead
GetHead(H, l) == H.head_[l]

(***************************************************************************)
(* The traversal every reader of a list makes: from p along next_ until    *)
(* NULL.  fuel stops it on a cycle, which takes more steps than there are  *)
(* linked nodes.                                                           *)
(***************************************************************************)
RECURSIVE Chain(_, _, _)
Chain(H, p, fuel) ==
    IF p = NULL \/ fuel = 0
    THEN <<>>
    ELSE <<p>> \o Chain(H, H.next_[p], fuel - 1)

Traverse(H, l) == Chain(H, GetHead(H, l), nlinked(H) + 1)

Range(s) == {s[i] : i \in DOMAIN s}

Reverse(s) == [i \in 1..Len(s) |-> s[Len(s) + 1 - i]]

\* The values of the ConstNodes a sequence of linked nodes points to.
Values(H, s) == [i \in 1..Len(s) |-> H.obj[H.node_ptr_[s[i]]].val_.vint]

(***************************************************************************)
(* The node classes.  A constructor is given the values of the members it  *)
(* initialises; a member it leaves uninitialised gets the value the caller *)
(* of the operator draws from Indeterminate.                               *)
(***************************************************************************)
Indeterminate == {NULL, WILD}

BoundTypes == {"kPreceding", "kFollowing", "kCurrent"}
FrameTypes == {"kFrameRange", "kFrameRows"}

\* LimitNode(int cnt)
LimitNode(cnt) == [cls |-> "LimitNode", type_ |-> "kLimit", limit_cnt_ |-> cnt]

\* FrameBound()
FrameBound0 ==
    [cls |-> "FrameBound", type_ |-> "kFrameBound",
     bound_type_ |-> "kPreceding", offset_ |-> NULL]

\* FrameBound(SQLNodeType bound_type): offset_ is not initialised.
FrameBound1(bound_type, u_offset) ==
    [cls |-> "FrameBound", type_ |-> "kFrameBound",
     bound_type_ |-> bound_type, offset_ |-> u_offset]

\* FrameBound(SQLNodeType bound_type, SQLNode *offset)
FrameBound2(bound_type, offset) ==
    [cls |-> "FrameBound", type_ |-> "kFrameBound",
     bound_type_ |-> bound_type, offset_ |-> offset]

\* FrameNode()
FrameNode0 ==
    [cls |-> "FrameNode", type_ |-> "kFrames",
     frame_type_ |-> "kFrameRange", start_ |-> NULL, end_ |-> NULL]

\* FrameNode(SQLNodeType frame_type, FrameBound *start, FrameBound *end)
FrameNode3(frame_type, start, end) ==
    [cls |-> "FrameNode", type_ |-> "kFrames",
     frame_type_ |-> frame_type, start_ |-> start, end_ |-> end]

\* ResTarget(): indirection_ and val_ are not initialised.
ResTarget0(u_indirection, u_val) ==
    [cls |-> "ResTarget", type_ |-> "kResTarget",
     indirection_ |-> u_indirection, val_ |-> u_val, name_ |-> ""]

\* ResTarget(const std::string &name, SQLNode *val): indirection_ is not
\* initialised.
ResTarget2(name, val, u_indirection) ==
    [cls |-> "ResTarget", type_ |-> "kResTarget",
     indirection_ |-> u_indirection, val_ |-> val, name_ |-> name]

\* ResTarget(uint32_t line_num, uint32_t location): val_ is not initialised.
ResTargetAt(u_val) ==
    [cls |-> "ResTarget", type_ |-> "kResTarget",
     indirection_ |-> NULL, val_ |-> u_val, name_ |-> ""]

\* OrderByNode(SQLNode *order)
OrderByNode(order) ==
    [cls |-> "OrderByNode", type_ |-> "kOrderBy",
     sort_type_ |-> "kDesc", order_by_ |-> order]

\* WindowDefNode()
WindowDefNode ==
    [cls |-> "WindowDefNode", type_ |-> "kWindowDef", window_name_ |-> "",
     partition_list_ptr_ |-> NULL, order_list_ptr_ |-> NULL, frame_ptr |-> NULL]

\* friend FillWindowSpection(node_ptr, partitions, orders, frame)
FillWindowSpection(o, partitions, orders, frame) ==
    [o EXCEPT !.partition_list_ptr_ = partitions, !.order_list_ptr_ = orders,
              !.frame_ptr = frame]

\* FuncNode(const std::string &function_name)
FuncNode1(function_name) ==
    [cls |-> "FuncNode", type_ |-> "kFunc", function_name_ |-> function_name,
     args_ |-> NULL, over_ |-> NULL]

\* FuncNode(const std::string &function_name, SQLNodeList *args,
\*          WindowDefNode *over)
FuncNode3(function_name, args, over) ==
    [cls |-> "FuncNode", type_ |-> "kFunc", function_name_ |-> function_name,
     args_ |-> args, over_ |-> over]

\* SelectStmt()
SelectStmt ==
    [cls |-> "SelectStmt", type_ |-> "kSelectStmt", distinct_opt_ |-> 0,
     limit_ptr_ |-> NULL, select_list_ptr_ |-> NULL,
     tableref_list_ptr_ |-> NULL, where_clause_ptr_ |-> NULL,
     group_clause_ptr_ |-> NULL, having_clause_ptr_ |-> NULL,
     order_clause_ptr_ |-> NULL, window_list_ptr_ |-> NULL]

\* friend FillSelectAttributions(node_ptr, select_list_ptr, tableref_list_ptr,
\*                               window_list_ptr, limit_ptr)
FillSelectAttributions(o, select_list_ptr, tableref_list_ptr, window_list_ptr, limit_ptr) ==
    [o EXCEPT !.select_list_ptr_ = select_list_ptr,
              !.tableref_list_ptr_ = tableref_list_ptr,
              !.window_list_ptr_ = window_list_ptr,
              !.limit_ptr_ = limit_ptr]

\* new T(...): the object is placed in the heap.
New(H, o) == [H EXCEPT !.obj = Append(@, o)]

(***************************************************************************)
(* Destruction.  D.log is the sequence of the objects deleted so far, each *)
(* <<"n", p>> for an SQLNode, <<"k", p>> for an SQLLinkedNode and          *)
(* <<"l", p>> for an SQLNodeList; D.ub records a delete of an              *)
(* indeterminate pointer.  Deleted(o) lists what ~o() deletes, in its      *)
(* order: "n" for a node pointer, "l" for a list pointer.                  *)
(***************************************************************************)
NoDeletes == [log |-> << >>, ub |-> FALSE]

\* How many times x was deleted.
Deletes(D, x) == Cardinality({i \in DOMAIN D.log : D.log[i] = x})

\* One more delete of x recorded.
Logged(D, x) == [D EXCEPT !.log = Append(@, x)]

Deleted(o) ==
    CASE o.cls = "SelectStmt" ->
           << <<"n", o.limit_ptr_>>, <<"l", o.tableref_list_ptr_>>,
              <<"l", o.select_list_ptr_>>, <<"n", o.where_clause_ptr_>>,
              <<"n", o.group_clause_ptr_>>, <<"n", o.having_clause_ptr_>>,
              <<"n", o.order_clause_ptr_>>, <<"l", o.window_list_ptr_>> >>
      [] o.cls = "ResTarget" -> << <<"n", o.val_>>, <<"l", o.indirection_>> >>
      [] o.cls = "WindowDefNode" ->
           << <<"l", o.partition_list_ptr_>>, <<"l", o.order_list_ptr_>>,
              <<"n", o.frame_ptr>> >>
      [] o.cls = "FrameBound" -> << <<"n", o.offset_>> >>
      [] o.cls = "FrameNode" -> << <<"n", o.start_>>, <<"n", o.end_>> >>
      [] o.cls = "OrderByNode" -> << <<"n", o.order_by_>> >>
      [] o.cls = "FuncNode" -> << <<"l", o.args_>>, <<"n", o.over_>> >>
      [] OTHER -> << >>

RECURSIVE DeleteNode(_, _, _)
RECURSIVE DeleteList(_, _, _)
RECURSIVE DeleteMembers(_, _, _)
RECURSIVE DeleteLinked(_, _, _)

\* The delete expressions of a destructor body, one after the other.
DeleteMembers(D, H, ms) ==
    IF ms = << >>
    THEN D
    ELSE LET m == Head(ms)
             D1 == IF m[1] = "n" THEN DeleteNode(D, H, m[2])
                                 ELSE DeleteList(D, H, m[2])
         IN  DeleteMembers(D1, H, Tail(ms))

\* delete p, p an SQLNode*: the virtual destructor of its class.
DeleteNode(D, H, p) ==
    IF p = NULL THEN D
    ELSE IF p = WILD THEN [D EXCEPT !.ub = TRUE]
    ELSE IF Deletes(D, <<"n", p>>) > 0 THEN Logged(D, <<"n", p>>)
    ELSE DeleteMembers(Logged(D, <<"n", p>>), H, Deleted(H.obj[p]))

\* SQLNodeList::~SQLNodeList deletes the linked nodes from head_ on;
\* SQLLinkedNode::~SQLLinkedNode deletes node_ptr_.
DeleteLinked(D, H, s) ==
    IF s = << >>
    THEN D
    ELSE LET k == Head(s)
             D1 == IF Deletes(D, <<"k", k>>) > 0
                   THEN Logged(D, <<"k", k>>)
                   ELSE DeleteNode(Logged(D, <<"k", k>>), H, H.node_ptr_[k])
         IN  DeleteLinked(D1, H, Tail(s))

\* delete l, l an SQLNodeList*.
DeleteList(D, H, l) ==
    IF l = NULL THEN D
    ELSE IF l = WILD THEN [D EXCEPT !.ub = TRUE]
    ELSE IF Deletes(D, <<"l", l>>) > 0 THEN Logged(D, <<"l", l>>)
    ELSE DeleteLinked(Logged(D, <<"l", l>>), H, Traverse(H, l))

(***************************************************************************)
(* The debug printer.  An output stream is the sequence of the pieces      *)
(* written to it; a tab string is a sequence of pieces as well.            *)
(***************************************************************************)
SPACE_ST == <<"+">>
SPACE_ED == <<>>
TAB == <<"\t">>

\* NameOfSQLNodeType is declared in node.h and defined outside it: the kind
\* names are those the specification's examples print, the enumerator's own
\* name where it gives none.
NameOfSQLNodeType(type) ==
    CASE type = "kFrameRange" -> "RANGE"
      [] type = "kFrameRows" -> "ROWS"
      [] type = "kPreceding" -> "PRECEDING"
      [] type = "kFollowing" -> "FOLLOWING"
      [] type = "kCurrent" -> "CURRENT"
      [] OTHER -> type

\* SQLNode::Print(output, tab) without the indentation written first.
SQLNodePrintBare(H, p, tab) == <<NameOfSQLNodeType(H.obj[p].type_)>> \o tab

\* SQLNode::Print(output, tab)
SQLNodePrint(H, p, tab) == tab \o SPACE_ED \o <<NameOfSQLNodeType(H.obj[p].type_)>>

\* What stands in the output for a call through a pointer that is NULL or
\* indeterminate: the behaviour is undefined.
UNDEFINED_OUTPUT == <<"<undefined>">>

\* operator<< on the member of val_ that type_ selects: a number in decimal,
\* for vstr the characters at the address.
ConstNodeValue(o) ==
    CASE o.type_ = "kInt" -> <<"value: ", ToString(o.val_.vint)>>
      [] o.type_ = "kBigInt" -> <<"value: ", ToString(o.val_.vlong)>>
      [] o.type_ = "kString" -> <<"value: ", mem[o.val_.vstr].text>>
      [] o.type_ = "kFloat" -> <<"value: ", o.val_.vfloat>>
      [] o.type_ = "kDouble" -> <<"value: ", o.val_.vdouble>>
      [] OTHER -> <<"value: unknow">>

\* ConstNode::Print(output, orgTab)
ConstNodePrint(H, p, orgTab) ==
    LET tab == orgTab \o TAB
    IN  SQLNodePrint(H, p, orgTab) \o <<"\n">> \o tab \o ConstNodeValue(H.obj[p])

RECURSIVE PrintNode(_, _, _)
RECURSIVE PrintList(_, _, _)

\* list_ptr->Print(output, tab) for a list member that is not NULL.
PrintListAt(H, l, tab) ==
    IF l \notin 1..nlists(H) THEN UNDEFINED_OUTPUT ELSE PrintList(H, l, tab)

\* A list member of a node: label and NULL, or the label and the list.
PrintListMember(H, l, tab, absent, present) ==
    IF NULL = l
    THEN tab \o <<absent>>
    ELSE tab \o <<present>> \o PrintListAt(H, l, tab \o TAB) \o <<"\n">>

\* A node member of SelectStmt printed with Print(output, tab).
PrintNodeMember(H, n, tab, absent, present) ==
    IF NULL = n
    THEN tab \o <<absent>>
    ELSE tab \o <<present>> \o PrintNode(H, n, tab) \o <<"\n">>

\* A node member of SelectStmt printed with operator<<, which is declared
\* at line 96 and defined outside this file; no constructor or friend of
\* this file makes such a member non-NULL.
PrintStreamedMember(H, n, tab, absent, present) ==
    IF NULL = n
    THEN tab \o <<absent>>
    ELSE tab \o <<present>> \o UNDEFINED_OUTPUT \o <<"\n">>

\* SelectStmt::Print(output, orgTab)
SelectStmtPrint(H, p, orgTab) ==
    LET tab == orgTab \o TAB
        o == H.obj[p]
    IN  SQLNodePrint(H, p, orgTab) \o <<"\n">>
        \o PrintListMember(H, o.select_list_ptr_, tab,
                           "select_list_ptr_: NULL\n", "select_list: \n")
        \o PrintListMember(H, o.tableref_list_ptr_, tab,
                           "tableref_list_ptr_: NULL\n", "tableref_list_ptr_: \n")
        \o PrintNodeMember(H, o.where_clause_ptr_, tab,
                           "where_clause_: NULL\n", "where_clause_: \n")
        \o PrintNodeMember(H, o.group_clause_ptr_, tab,
                           "group_clause_: NULL\n", "group_clause_: \n")
        \o PrintStreamedMember(H, o.having_clause_ptr_, tab,
                               "having_clause_: NULL\n", "having_clause_: ")
        \o PrintStreamedMember(H, o.order_clause_ptr_, tab,
                               "order_clause_: NULL\n", "order_clause_: ")
        \o PrintListMember(H, o.window_list_ptr_, tab,
                           "window_list_ptr_: NULL\n", "window_list_ptr_: \n")
        \o PrintNodeMember(H, o.limit_ptr_, tab,
                           "limit_clause_: NULL\n", "limit_clause_: \n")

\* ResTarget::Print(output, orgTab): val_ is not tested for NULL.
ResTargetPrint(H, p, orgTab) ==
    LET tab == orgTab \o TAB \o SPACE_ED
        space == orgTab \o TAB \o TAB
    IN  SQLNodePrint(H, p, orgTab) \o <<"\n">>
        \o tab \o <<"val: \n">> \o PrintNode(H, H.obj[p].val_, space) \o <<"\n">>
        \o tab \o <<"name: \n">> \o space \o <<H.obj[p].name_>>

\* WindowDefNode::Print(output, orgTab)
WindowDefNodePrint(H, p, orgTab) ==
    LET tab == orgTab \o TAB
        space == tab \o TAB
        o == H.obj[p]
    IN  SQLNodePrint(H, p, orgTab) \o <<"\n">>
        \o tab \o <<"window_name: ", o.window_name_, "\n">>
        \o PrintListMember(H, o.partition_list_ptr_, tab,
                           "partition_list_ptr_: NULL\n", "partition_list_ptr_: \n")
        \o PrintListMember(H, o.order_list_ptr_, tab,
                           "order_list_ptr_: NULL\n", "order_list_ptr_: \n")
        \o (IF NULL = o.frame_ptr
            THEN tab \o <<"frame_ptr: NULL">>
            ELSE tab \o <<"frame_ptr: \n">> \o PrintNode(H, o.frame_ptr, space))

\* OrderByNode::Print(output, orgTab)
OrderByNodePrint(H, p, orgTab) ==
    LET tab == orgTab \o TAB \o SPACE_ED
        space == orgTab \o TAB \o TAB \o SPACE_ED
        o == H.obj[p]
    IN  SQLNodePrint(H, p, orgTab) \o <<"\n">>
        \o tab \o <<"sort_type_: ", NameOfSQLNodeType(o.sort_type_), "\n">>
        \o (IF NULL = o.order_by_
            THEN tab \o <<"order_by_: NULL\n">>
            ELSE tab \o <<"order_by_: \n">> \o PrintNode(H, o.order_by_, space)
                 \o <<"\n">>)

\* FuncNode::Print(output, orgTab)
FuncNodePrint(H, p, orgTab) ==
    LET tab == orgTab \o TAB \o SPACE_ED
        space == orgTab \o TAB \o TAB
        o == H.obj[p]
    IN  SQLNodePrint(H, p, orgTab) \o <<"\n">>
        \o tab \o <<"function_name: ", o.function_name_>> \o <<"\n">>
        \o tab \o <<"args: \n">>
        \o (IF NULL = o.args_ \/ 0 = Size(H, o.args_)
            THEN space \o <<"[]">>
            ELSE PrintListAt(H, o.args_, space))
        \o <<"\n">>
        \o (IF NULL = o.over_
            THEN tab \o <<"over: NULL\n">>
            ELSE tab \o <<"over: \n">> \o PrintNode(H, o.over_, space))

\* FrameBound::Print(output, orgTab)
FrameBoundPrint(H, p, orgTab) ==
    LET tab == orgTab \o TAB
        space == tab \o TAB
    IN  SQLNodePrint(H, p, orgTab) \o <<"\n">>
        \o tab \o <<"bound: ", NameOfSQLNodeType(H.obj[p].bound_type_), "\n">>
        \o (IF NULL = H.obj[p].offset_
            THEN space \o <<"UNBOUNDED">>
            ELSE PrintNode(H, H.obj[p].offset_, space))

\* FrameNode::Print, lines 515-519: the kind and the frame type.
FrameNodePrintType(H, p, orgTab) ==
    LET tab == orgTab \o TAB
    IN  SQLNodePrint(H, p, orgTab) \o <<"\n">>
        \o tab \o <<"frames_type_ : ", NameOfSQLNodeType(H.obj[p].frame_type_), "\n">>

\* FrameNode::Print, lines 520-526: the start bound.
FrameNodePrintStart(H, p, orgTab) ==
    LET tab == orgTab \o TAB
        space == tab \o TAB
    IN  IF NULL = H.obj[p].start_
        THEN tab \o <<"start: ", "UNBOUNDED", ": \n">>
        ELSE tab \o <<"start: \n">> \o PrintNode(H, H.obj[p].start_, space)
             \o <<"\n">>

\* FrameNode::Print, lines 528-533: the end bound.
FrameNodePrintEnd(H, p, orgTab) ==
    LET tab == orgTab \o TAB
        space == tab \o TAB
    IN  IF NULL = H.obj[p].end_
        THEN tab \o <<"end: ", "UNBOUNDED">>
        ELSE tab \o <<"end: \n">> \o PrintNode(H, H.obj[p].end_, space)

\* FrameNode::Print(output, orgTab)
FrameNodePrint(H, p, orgTab) ==
    FrameNodePrintType(H, p, orgTab) \o FrameNodePrintStart(H, p, orgTab)
    \o FrameNodePrintEnd(H, p, orgTab)

\* The virtual call node_ptr->Print(output, tab).  LimitNode does not
\* override Print and prints as an SQLNode.
PrintNode(H, p, tab) ==
    IF p \notin 1..nobj(H)
    THEN UNDEFINED_OUTPUT
    ELSE CASE H.obj[p].cls = "ConstNode" -> ConstNodePrint(H, p, tab)
           [] H.obj[p].cls = "FrameBound" -> FrameBoundPrint(H, p, tab)
           [] H.obj[p].cls = "FrameNode" -> FrameNodePrint(H, p, tab)
           [] H.obj[p].cls = "SelectStmt" -> SelectStmtPrint(H, p, tab)
           [] H.obj[p].cls = "ResTarget" -> ResTargetPrint(H, p, tab)
           [] H.obj[p].cls = "WindowDefNode" -> WindowDefNodePrint(H, p, tab)
           [] H.obj[p].cls = "OrderByNode" -> OrderByNodePrint(H, p, tab)
           [] H.obj[p].cls = "FuncNode" -> FuncNodePrint(H, p, tab)
           [] H.obj[p].cls = "LimitNode" -> SQLNodePrint(H, p, tab)

\* SQLNode::Print(output): Print(output, SPACE_ST), a virtual call, so the
\* class's own Print(output, orgTab) runs with SPACE_ST as indentation.
SQLNodePrintDefault(H, p) == PrintNode(H, p, SPACE_ST)

\* The loop of SQLNodeList::Print over the linked nodes s.
RECURSIVE PrintElements(_, _, _)
PrintElements(H, s, space) ==
    IF s = <<>>
    THEN <<>>
    ELSE PrintNode(H, H.node_ptr_[Head(s)], space) \o <<"\n">>
         \o PrintElements(H, Tail(s), space)

\* SQLNodeList::Print(output, tab)
PrintList(H, l, tab) ==
    IF 0 = H.size_[l] \/ NULL = H.head_[l]
    THEN tab \o <<"[]">>
    ELSE tab \o <<"[\n">> \o PrintElements(H, Traverse(H, l), tab \o TAB)
         \o tab \o <<"]">>

(***************************************************************************)
(* The caller.  It holds the lists and nodes it made until it hands them   *)
(* to a list or to a node, or deletes them; what it has handed over it     *)
(* neither uses nor deletes again.                                         *)
(***************************************************************************)

\* The lists the caller still holds.
Live ==
    {l \in 1..nlists(heap) : l \notin consumed /\ Deletes(del, <<"l", l>>) = 0}

\* The nodes the caller still holds.
Held ==
    {p \in 1..nobj(heap) : p \notin given /\ Deletes(del, <<"n", p>>) = 0}

HeldOf(cls) == {p \in Held : heap.obj[p].cls = cls}

\* The caller builds until it deletes something it holds, which ends the run.
Building == del.log = << >> /\ ~del.ub

\* The nodes and linked nodes handed over with the nodes ns and the lists ls.
HandedOver(ns, ls) ==
    {<<"n", p>> : p \in ns \ {NULL}}
    \cup UNION {own.n[p] : p \in ns \ {NULL}}
    \cup UNION {own.l[l] : l \in ls \ {NULL}}

Init ==
    /\ heap = EmptyHeap
    /\ call = [op |-> "none"]
    /\ consumed = {}
    /\ pushed = << >>
    /\ given = {}
    /\ del = NoDeletes
    /\ own = [n |-> << >>, l |-> << >>]
    /\ made = << >>
    /\ mem = << >>
    /\ input = << >>

\* The caller creates an empty list.
NewList(max) ==
    /\ Building
    /\ nlists(heap) < max
    /\ heap' = SQLNodeList(heap)
    /\ call' = [op |-> "SQLNodeList", l |-> nlists(heap) + 1]
    /\ pushed' = Append(pushed, [only |-> TRUE, vals |-> << >>])
    /\ own' = [own EXCEPT !.l = Append(@, {})]
    /\ UNCHANGED <<consumed, given, del, made>>
    /\ UNCHANGED literalVars

\* The caller makes a literal node and prepends it to a list it holds.  The
\* k-th literal made has the value k, so that the elements differ.
DoPushFront(l) ==
    /\ Building
    /\ nlinked(heap) < MaxLinked
    /\ LET H1 == ConstNodeInt(heap, nobj(heap) + 1)
       IN  heap' = PushFront(H1, l, nobj(H1))
    /\ call' = [op |-> "PushFront", l |-> l]
    /\ pushed' = [pushed EXCEPT ![l].vals = Append(@, nobj(heap) + 1)]
    /\ given' = given \cup {nobj(heap) + 1}
    /\ made' = Append(made, "ConstNode(int)")
    /\ own' = [own EXCEPT !.n = Append(@, {}),
                          !.l[l] = @ \cup {<<"k", nlinked(heap) + 1>>,
                                           <<"n", nobj(heap) + 1>>}]
    /\ UNCHANGED <<consumed, del>>
    /\ UNCHANGED literalVars

\* The caller prepends a node it holds to a list it holds.
PushFrontHeld(l, p) ==
    /\ Building
    /\ nlinked(heap) < TreeMaxLinked
    /\ heap' = PushFront(heap, l, p)
    /\ call' = [op |-> "PushFront", l |-> l]
    /\ pushed' = [pushed EXCEPT ![l].vals = Append(@, p)]
    /\ given' = given \cup {p}
    /\ own' = [own EXCEPT !.l[l] = @ \cup {<<"k", nlinked(heap) + 1>>}
                                     \cup HandedOver({p}, {})]
    /\ UNCHANGED <<consumed, del, made>>
    /\ UNCHANGED literalVars

\* The caller splices list b (or no list) onto a list it holds; b is handed
\* over with the call.
DoAppendNodeList(l, b) ==
    /\ Building
    /\ heap' = AppendNodeList(heap, l, b)
    /\ call' = [op |-> "AppendNodeList", l |-> l, b |-> b]
    /\ consumed' = consumed \cup ({b} \ {NULL})
    /\ pushed' = [pushed EXCEPT ![l].only = FALSE]
    /\ own' = [own EXCEPT !.l[l] = @ \cup HandedOver({}, {b})]
    /\ UNCHANGED <<given, del, made>>
    /\ UNCHANGED literalVars

\* delete l, for a list the caller holds.
DoDeleteList ==
    \E l \in Live :
        /\ Building
        /\ del' = DeleteList(del, heap, l)
        /\ call' = [op |-> "delete", h |-> <<"l", l>>]
        /\ UNCHANGED <<heap, consumed, pushed, given, own, made>>
        /\ UNCHANGED literalVars

Next ==
    \/ NewList(MaxLists)
    \/ \E l \in Live : DoPushFront(l)
    \/ \E l \in Live : \E b \in (Live \ {l}) \cup {NULL} : DoAppendNodeList(l, b)
    \/ DoDeleteList

Spec == Init /\ [][Next]_vars

(***************************************************************************)
(* The tree machine: the caller builds nodes and lists bottom-up with the  *)
(* constructors, and deletes what it holds.                                *)
(***************************************************************************)

\* new T(...) with the node arguments ns and the list arguments ls, which
\* the caller holds and hands over (NULL: no argument).
Construct(o, ctor, ns, ls) ==
    /\ Building
    /\ heap' = New(heap, o)
    /\ call' = [op |-> "new", p |-> nobj(heap) + 1]
    /\ made' = Append(made, ctor)
    /\ given' = given \cup (ns \ {NULL})
    /\ consumed' = consumed \cup (ls \ {NULL})
    /\ own' = [own EXCEPT !.n = Append(@, HandedOver(ns, ls))]
    /\ UNCHANGED <<del, pushed>>
    /\ UNCHANGED literalVars

\* The friend function fills the node p the caller holds.
Fill(p, o, ns, ls) ==
    /\ Building
    /\ heap' = [heap EXCEPT !.obj[p] = o]
    /\ call' = [op |-> "fill", p |-> p]
    /\ made' = [made EXCEPT ![p] = "filled"]
    /\ given' = given \cup (ns \ {NULL})
    /\ consumed' = consumed \cup (ls \ {NULL})
    /\ own' = [own EXCEPT !.n[p] = @ \cup HandedOver(ns, ls)]
    /\ UNCHANGED <<del, pushed>>
    /\ UNCHANGED literalVars

\* Arguments: a held node of the class or none, each node at most once.
Opt(S) == S \cup {NULL}
Apart(ps) == \A i, j \in DOMAIN ps : (i # j /\ ps[i] # NULL) => ps[i] # ps[j]

\* Each constructor call is guarded by the bound max on the nodes made.
NewConstNode(max) ==
    /\ nobj(heap) < max
    /\ Construct(ConstNodeInt(EmptyHeap, 3).obj[1], "ConstNode(int)", {}, {})

NewLimitNode(max) ==
    \E cnt \in {0, 10} :
        /\ nobj(heap) < max
        /\ Construct(LimitNode(cnt), "LimitNode(int)", {}, {})

NewFrameBound0(max) ==
    /\ nobj(heap) < max
    /\ Construct(FrameBound0, "FrameBound()", {}, {})

NewFrameBound1(max) ==
    \E bound_type \in BoundTypes, u \in Indeterminate :
        /\ nobj(heap) < max
        /\ Construct(FrameBound1(bound_type, u), "FrameBound(bound_type)", {}, {})

NewFrameBound2(max) ==
    \E bound_type \in BoundTypes, offset \in Opt(HeldOf("ConstNode")) :
        /\ nobj(heap) < max
        /\ Construct(FrameBound2(bound_type, offset),
                     "FrameBound(bound_type, offset)", {offset}, {})

NewFrameNode0(max) ==
    /\ nobj(heap) < max
    /\ Construct(FrameNode0, "FrameNode()", {}, {})

NewFrameNode3(max) ==
    \E frame_type \in FrameTypes, start, end \in Opt(HeldOf("FrameBound")) :
        /\ nobj(heap) < max
        /\ Apart(<<start, end>>)
        /\ Construct(FrameNode3(frame_type, start, end),
                     "FrameNode(frame_type, start, end)", {start, end}, {})

NewResTarget0(max) ==
    \E u1, u2 \in Indeterminate :
        /\ nobj(heap) < max
        /\ Construct(ResTarget0(u1, u2), "ResTarget()", {}, {})

NewResTarget2(max) ==
    \E val \in Opt(Held), u \in Indeterminate :
        /\ nobj(heap) < max
        /\ Construct(ResTarget2("x", val, u), "ResTarget(name, val)", {val}, {})

NewResTargetAt(max) ==
    \E u \in Indeterminate :
        /\ nobj(heap) < max
        /\ Construct(ResTargetAt(u), "ResTarget(line_num, location)", {}, {})

NewOrderByNode(max) ==
    \E order \in Opt(Held) :
        /\ nobj(heap) < max
        /\ Construct(OrderByNode(order), "OrderByNode(order)", {order}, {})

NewWindowDefNode(max) ==
    /\ nobj(heap) < max
    /\ Construct(WindowDefNode, "WindowDefNode()", {}, {})

DoFillWindowSpection ==
    \E p \in HeldOf("WindowDefNode") :
      \E partitions, orders \in Opt(Live), frame \in Opt(HeldOf("FrameNode")) :
        /\ made[p] = "WindowDefNode()"
        /\ Apart(<<partitions, orders>>)
        /\ Fill(p, FillWindowSpection(heap.obj[p], partitions, orders, frame),
                {frame}, {partitions, orders})

NewFuncNode1(max) ==
    /\ nobj(heap) < max
    /\ Construct(FuncNode1("f"), "FuncNode(function_name)", {}, {})

NewFuncNode3(max) ==
    \E args \in Opt(Live), over \in Opt(HeldOf("WindowDefNode")) :
        /\ nobj(heap) < max
        /\ Construct(FuncNode3("f", args, over),
                     "FuncNode(function_name, args, over)", {over}, {args})

NewSelectStmt(max) ==
    /\ nobj(heap) < max
    /\ Construct(SelectStmt, "SelectStmt()", {}, {})

DoFillSelectAttributions ==
    \E p \in HeldOf("SelectStmt") :
      \E sl, tl, wl \in Opt(Live), limit \in Opt(HeldOf("LimitNode")) :
        /\ made[p] = "SelectStmt()"
        /\ Apart(<<sl, tl, wl>>)
        /\ Fill(p, FillSelectAttributions(heap.obj[p], sl, tl, wl, limit),
                {limit}, {sl, tl, wl})

\* delete p, for a node the caller holds.
DoDeleteNode ==
    \E p \in Held :
        /\ Building
        /\ del' = DeleteNode(del, heap, p)
        /\ call' = [op |-> "delete", h |-> <<"n", p>>]
        /\ UNCHANGED <<heap, consumed, pushed, given, own, made>>
        /\ UNCHANGED literalVars

TreeNext ==
    \/ NewList(TreeMaxLists)
    \/ \E l \in Live, p \in Held : PushFrontHeld(l, p)
    \/ \E l \in Live : \E b \in (Live \ {l}) \cup {NULL} : DoAppendNodeList(l, b)
    \/ NewConstNode(TreeMaxObjs)
    \/ NewLimitNode(TreeMaxObjs)
    \/ NewFrameBound0(TreeMaxObjs)
    \/ NewFrameBound1(TreeMaxObjs)
    \/ NewFrameBound2(TreeMaxObjs)
    \/ NewFrameNode0(TreeMaxObjs)
    \/ NewFrameNode3(TreeMaxObjs)
    \/ NewResTarget0(TreeMaxObjs)
    \/ NewResTarget2(TreeMaxObjs)
    \/ NewResTargetAt(TreeMaxObjs)
    \/ NewOrderByNode(TreeMaxObjs)
    \/ NewWindowDefNode(TreeMaxObjs)
    \/ DoFillWindowSpection
    \/ NewFuncNode1(TreeMaxObjs)
    \/ NewFuncNode3(TreeMaxObjs)
    \/ NewSelectStmt(TreeMaxObjs)
    \/ DoFillSelectAttributions
    \/ DoDeleteNode
    \/ DoDeleteList

SpecTree == Init /\ [][TreeNext]_vars

(***************************************************************************)
(* The frame machine: the caller builds window frames, their bounds and    *)
(* the bounds' offsets, and deletes what it holds.                         *)
(***************************************************************************)
FrameNext ==
    \/ NewConstNode(FrameMaxObjs)
    \/ NewFrameBound0(FrameMaxObjs)
    \/ NewFrameBound1(FrameMaxObjs)
    \/ NewFrameBound2(FrameMaxObjs)
    \/ NewFrameNode0(FrameMaxObjs)
    \/ NewFrameNode3(FrameMaxObjs)
    \/ DoDeleteNode

SpecFrame == Init /\ [][FrameNext]_vars

(***************************************************************************)
(* The literal machine: the caller makes character buffers and ConstNodes, *)
(* and lets std::string arguments go out of scope.  A buffer is            *)
(* [kind, alive, text]: a string literal ("static") lives for the whole    *)
(* run, the buffer of a std::string ("string") until the string is         *)
(* destroyed; a pointer to a buffer is its index in mem.                   *)
(***************************************************************************)
IntVals == {-2147483647 - 1, -1, 0, 7, 2147483647}
LongVals == {-1, 0, 2147483647}
FloatVals == {"-1.5", "0", "3.25"}
Texts == {"", "abc"}

\* What may stand in freed memory when it is read: what was there, or what
\* was written there since.
FreedTexts == Texts \cup {"<overwritten>"}

\* ConstNode()
ConstNodeNull == [cls |-> "ConstNode", type_ |-> "kNull", val_ |-> [none |-> 0]]

\* ConstNode(long val)
ConstNodeLong(val) ==
    [cls |-> "ConstNode", type_ |-> "kBigInt", val_ |-> [vlong |-> val]]

\* ConstNode(float val)
ConstNodeFloat(val) ==
    [cls |-> "ConstNode", type_ |-> "kFloat", val_ |-> [vfloat |-> val]]

\* ConstNode(double val)
ConstNodeDouble(val) ==
    [cls |-> "ConstNode", type_ |-> "kDouble", val_ |-> [vdouble |-> val]]

\* ConstNode(const char *val): val_.vstr = val
ConstNodeCStr(val) ==
    [cls |-> "ConstNode", type_ |-> "kString", val_ |-> [vstr |-> val]]

\* std::string::c_str(): the address of the string's own buffer.
c_str(str) == str

\* ConstNode(const std::string &val): val_.vstr = val.c_str(); the text is
\* not copied.
ConstNodeString(val) ==
    [cls |-> "ConstNode", type_ |-> "kString", val_ |-> [vstr |-> c_str(val)]]

\* ConstNode::GetInt, GetLong, GetStr, GetFloat, GetDouble
GetInt(o) == o.val_.vint
GetLong(o) == o.val_.vlong
GetStr(o) == o.val_.vstr
GetFloat(o) == o.val_.vfloat
GetDouble(o) == o.val_.vdouble

\* The value read through the accessor that matches the kind tag; for text,
\* the characters at the address GetStr() returns.
ReadBack(o, M) ==
    CASE o.type_ = "kInt" -> GetInt(o)
      [] o.type_ = "kBigInt" -> GetLong(o)
      [] o.type_ = "kFloat" -> GetFloat(o)
      [] o.type_ = "kDouble" -> GetDouble(o)
      [] o.type_ = "kString" -> M[GetStr(o)].text

NewLiteral(o, ctor, val) ==
    /\ heap' = New(heap, o)
    /\ call' = [op |-> "new", p |-> nobj(heap) + 1]
    /\ made' = Append(made, ctor)
    /\ input' = Append(input, val)
    /\ own' = [own EXCEPT !.n = Append(@, {})]
    /\ UNCHANGED <<consumed, pushed, given, del, mem>>

NewConstNull ==
    /\ nobj(heap) < MaxLiterals
    /\ NewLiteral(ConstNodeNull, "ConstNode()", "none")

NewConstInt ==
    \E val \in IntVals :
        /\ nobj(heap) < MaxLiterals
        /\ NewLiteral(ConstNodeInt(EmptyHeap, val).obj[1], "ConstNode(int)", val)

NewConstLong ==
    \E val \in LongVals :
        /\ nobj(heap) < MaxLiterals
        /\ NewLiteral(ConstNodeLong(val), "ConstNode(long)", val)

NewConstFloat ==
    \E val \in FloatVals :
        /\ nobj(heap) < MaxLiterals
        /\ NewLiteral(ConstNodeFloat(val), "ConstNode(float)", val)

NewConstDouble ==
    \E val \in FloatVals :
        /\ nobj(heap) < MaxLiterals
        /\ NewLiteral(ConstNodeDouble(val), "ConstNode(double)", val)

\* The caller has a string literal, or makes a std::string.
NewBuffer ==
    \E kind \in {"static", "string"}, text \in Texts :
        /\ Len(mem) < MaxBuffers
        /\ mem' = Append(mem, [kind |-> kind, alive |-> TRUE, text |-> text])
        /\ call' = [op |-> "buffer", b |-> Len(mem) + 1]
        /\ UNCHANGED <<heap, consumed, pushed, given, del, own, made, input>>

\* new ConstNode(val) for a const char *val: a string literal, or the
\* c_str() of a std::string that is alive.
NewConstCStr ==
    \E b \in DOMAIN mem :
        /\ nobj(heap) < MaxLiterals
        /\ mem[b].alive
        /\ NewLiteral(ConstNodeCStr(b), "ConstNode(const char *)", mem[b].text)

\* new ConstNode(val) for a std::string val that is alive.
NewConstString ==
    \E b \in DOMAIN mem :
        /\ nobj(heap) < MaxLiterals
        /\ mem[b].kind = "string" /\ mem[b].alive
        /\ NewLiteral(ConstNodeString(b), "ConstNode(const std::string &)",
                      mem[b].text)

\* A std::string goes out of scope: its buffer is freed, and what is read
\* there from now on is indeterminate.
StringDestroyed ==
    \E b \in DOMAIN mem, text \in FreedTexts :
        /\ mem[b].kind = "string" /\ mem[b].alive
        /\ mem' = [mem EXCEPT ![b] = [kind |-> "string", alive |-> FALSE,
                                      text |-> text]]
        /\ call' = [op |-> "~string", b |-> b]
        /\ UNCHANGED <<heap, consumed, pushed, given, del, own, made, input>>

LiteralNext ==
    \/ NewConstNull
    \/ NewConstInt
    \/ NewConstLong
    \/ NewConstFloat
    \/ NewConstDouble
    \/ NewBuffer
    \/ NewConstCStr
    \/ NewConstString
    \/ StringDestroyed

SpecLiteral == Init /\ [][LiteralNext]_vars

(***************************************************************************)
(* Claims about the list machine.                                          *)
(***************************************************************************)

\* What a reader of list l sees: its size and its elements front to back.
Elements(H, l) == Values(H, Traverse(H, l))
Observed(H, l) == <<Size(H, l), Elements(H, l)>>

IsEmpty(H, l) == H.head_[l] = NULL /\ H.size_[l] = 0
IsNonEmpty(H, l) == H.head_[l] # NULL /\ H.size_[l] > 0

\* C1: in every reachable state, the Size() of every list the caller holds
\* equals the number of linked nodes reached from GetHead() along next_.
C1_SizeIsTraversalLength ==
    \A l \in Live : Size(heap, l) = Len(Traverse(heap, l))

\* C2: A.AppendNodeList(B), for lists A and B built by any calls, leaves A
\* with size n+m and with A's former elements followed by B's.
C2_AppendConcatenates ==
    [][(call'.op = "AppendNodeList" /\ call'.b # NULL) =>
        /\ Size(heap', call'.l) = Size(heap, call'.l) + Size(heap, call'.b)
        /\ Elements(heap', call'.l)
             = Elements(heap, call'.l) \o Elements(heap, call'.b)]_vars

\* C3: in every reachable state no linked node is reachable from the head
\* of more than one SQLNodeList.
C3_NoNodeInTwoLists ==
    \A l1, l2 \in 1..nlists(heap) :
        l1 # l2 => Range(Traverse(heap, l1)) \cap Range(Traverse(heap, l2)) = {}

\* The caller later makes a one-element list and appends it to l.
LaterAppend(H, l) ==
    LET H1 == SQLNodeList(H)
        c == nlists(H1)
        H2 == ConstNodeInt(H1, 0)
        H3 == PushFront(H2, c, nobj(H2))
    IN  AppendNodeList(H3, l, c)

\* The caller later makes a literal and prepends it to l.
LaterPushFront(H, l) ==
    LET H1 == ConstNodeInt(H, 0)
    IN  PushFront(H1, l, nobj(H1))

\* C5: appending an absent or empty list onto a non-empty list leaves the
\* target's size and order unchanged, and the target then behaves under a
\* later PushFront or AppendNodeList as if the append had not happened.
C5_EmptyAppendIsNoOp ==
    [][(/\ call'.op = "AppendNodeList"
        /\ IsNonEmpty(heap, call'.l)
        /\ (call'.b = NULL \/ IsEmpty(heap, call'.b))) =>
        /\ Observed(heap', call'.l) = Observed(heap, call'.l)
        /\ Observed(LaterPushFront(heap', call'.l), call'.l)
             = Observed(LaterPushFront(heap, call'.l), call'.l)
        /\ Observed(LaterAppend(heap', call'.l), call'.l)
             = Observed(LaterAppend(heap, call'.l), call'.l)]_vars

\* What SQLNodeList::Print writes for a list of kInt literals xs, front to
\* back, read off lines 152-169 and 745-751.
RECURSIVE ExpectedElements(_)
ExpectedElements(xs) ==
    IF xs = <<>>
    THEN <<>>
    ELSE <<"\t", "kInt", "\n", "\t", "\t", "value: ", ToString(Head(xs)), "\n">>
         \o ExpectedElements(Tail(xs))

ExpectedList(xs) ==
    IF xs = <<>> THEN <<"[]">> ELSE <<"[\n">> \o ExpectedElements(xs) \o <<"]">>

\* C6: a list built from empty by PushFront of x1, ..., xk alone has size k
\* and is traversed, and printed, as xk, ..., x1.
C6_PushFrontReverses ==
    \A l \in Live :
        pushed[l].only =>
            /\ Size(heap, l) = Len(pushed[l].vals)
            /\ Elements(heap, l) = Reverse(pushed[l].vals)
            /\ PrintList(heap, l, <<>>) = ExpectedList(Reverse(pushed[l].vals))

\* A list of three pushed elements, the last call being a PushFront on it.
C6_Witness ==
    /\ call.op = "PushFront"
    /\ call.l \in Live
    /\ pushed[call.l].only
    /\ Len(pushed[call.l].vals) >= 3

(***************************************************************************)
(* Claims about the tree machine and the frame machine.                    *)
(***************************************************************************)

\* The nodes and linked nodes handed, directly or through others, to the
\* node or list h.
Owned(h) == IF h[1] = "n" THEN own.n[h[2]] ELSE own.l[h[2]]

\* C4: deleting a node or list the caller holds deletes every node and
\* linked node handed to it, directly or through others, exactly once, and
\* nothing twice; no delete is of an indeterminate pointer.
C4_DeleteReleasesEachOnce ==
    call.op = "delete" =>
        /\ ~del.ub
        /\ \A x \in Owned(call.h) : Deletes(del, x) = 1
        /\ \A i \in DOMAIN del.log : Deletes(del, del.log[i]) = 1

\* The same for the delete of a list alone.
ListDeleteReleasesEachOnce ==
    (call.op = "delete" /\ call.h[1] = "l") =>
        \A x \in Owned(call.h) : Deletes(del, x) = 1

\* FrameBound::GetOffset
GetOffset(H, p) == H.obj[p].offset_

\* FrameBound::GetBoundType
GetBoundType(H, p) == H.obj[p].bound_type_

NodesOf(cls) == {p \in 1..nobj(heap) : heap.obj[p].cls = cls}

\* C7: a FrameBound has an offset only if its kind is PRECEDING or FOLLOWING
\* and its constructor was given one; a CURRENT bound and a bound made from
\* a bound kind alone have none.
C7_OffsetOnlyWithCount ==
    \A p \in NodesOf("FrameBound") :
        /\ GetOffset(heap, p) # NULL =>
              /\ GetBoundType(heap, p) \in {"kPreceding", "kFollowing"}
              /\ made[p] = "FrameBound(bound_type, offset)"
        /\ GetBoundType(heap, p) = "kCurrent" => GetOffset(heap, p) = NULL
        /\ made[p] = "FrameBound(bound_type)" => GetOffset(heap, p) = NULL

\* The child members for which a constructor takes no argument.
Unsupplied(ctor) ==
    CASE ctor = "FrameBound()" -> {"offset_"}
      [] ctor = "FrameBound(bound_type)" -> {"offset_"}
      [] ctor = "FrameNode()" -> {"start_", "end_"}
      [] ctor = "ResTarget()" -> {"indirection_", "val_"}
      [] ctor = "ResTarget(name, val)" -> {"indirection_"}
      [] ctor = "ResTarget(line_num, location)" -> {"indirection_", "val_"}
      [] ctor = "WindowDefNode()" ->
           {"partition_list_ptr_", "order_list_ptr_", "frame_ptr"}
      [] ctor = "FuncNode(function_name)" -> {"args_", "over_"}
      [] ctor = "SelectStmt()" ->
           {"limit_ptr_", "select_list_ptr_", "tableref_list_ptr_",
            "where_clause_ptr_", "group_clause_ptr_", "having_clause_ptr_",
            "order_clause_ptr_", "window_list_ptr_"}
      [] OTHER -> {}

\* C8: right after any constructor of a composite node, every child member
\* for which it was given no argument is NULL.
C8_UnsuppliedMembersAreNull ==
    call.op = "new" =>
        \A f \in Unsupplied(made[call.p]) : heap.obj[call.p][f] = NULL

\* The pieces FrameNode::Print writes for the start and for the end bound.
StartPieces(p) == Range(FrameNodePrintStart(heap, p, SPACE_ST))
EndPieces(p) == Range(FrameNodePrintEnd(heap, p, SPACE_ST))

\* What the claim says of the pieces written for the bound b (NULL: absent).
PrintsBound(pieces, b) ==
    /\ "UNBOUNDED" \in pieces <=> b = NULL
    /\ b # NULL =>
          /\ NameOfSQLNodeType(GetBoundType(heap, b)) \in pieces
          /\ GetOffset(heap, b) \in 1..nobj(heap) =>
                ToString(heap.obj[GetOffset(heap, b)].val_.vint) \in pieces
          /\ GetBoundType(heap, b) = "kCurrent" => "value: " \notin pieces

\* C10: FrameNode::Print writes UNBOUNDED for the start (end) exactly when
\* the start (end) bound is absent; for a present bound it writes the kind,
\* the offset's value when there is an offset, and neither an offset nor
\* UNBOUNDED for a CURRENT bound.
C10_FramePrintsBounds ==
    \A p \in NodesOf("FrameNode") :
        /\ PrintsBound(StartPieces(p), heap.obj[p].start_)
        /\ PrintsBound(EndPieces(p), heap.obj[p].end_)

\* The frame of the specification's third example: ROWS, from 3 PRECEDING
\* to CURRENT with no offset; its end part has the piece UNBOUNDED.
Example3Frame(p) ==
    LET o == heap.obj[p]
    IN  /\ o.frame_type_ = "kFrameRows"
        /\ o.start_ # NULL /\ o.end_ # NULL
        /\ GetBoundType(heap, o.start_) = "kPreceding"
        /\ GetOffset(heap, o.start_) \in NodesOf("ConstNode")
        /\ GetBoundType(heap, o.end_) = "kCurrent"
        /\ GetOffset(heap, o.end_) = NULL

C10_Example3PrintsNoUnbounded ==
    \A p \in NodesOf("FrameNode") :
        Example3Frame(p) =>
            "UNBOUNDED" \notin Range(FrameNodePrint(heap, p, SPACE_ST))

(***************************************************************************)
(* Claims about the literal machine.                                       *)
(***************************************************************************)

\* C9: for every literal kind and constructor, the value read through the
\* accessor matching the kind tag equals the constructor's input, for text
\* also after the constructor's argument has gone out of scope.
C9_LiteralReadsBack ==
    \A p \in 1..nobj(heap) :
        heap.obj[p].type_ # "kNull" => ReadBack(heap.obj[p], mem) = input[p]

(***************************************************************************)
(* The printer machine: the caller builds nodes of every class and empty   *)
(* lists as in the tree machine, deletes nothing, and prints what it has   *)
(* built.                                                                  *)
(***************************************************************************)
PrintNext ==
    \/ NewList(PrintMaxLists)
    \/ NewConstNode(PrintMaxObjs)
    \/ NewLimitNode(PrintMaxObjs)
    \/ NewFrameBound0(PrintMaxObjs)
    \/ NewFrameBound1(PrintMaxObjs)
    \/ NewFrameBound2(PrintMaxObjs)
    \/ NewFrameNode0(PrintMaxObjs)
    \/ NewFrameNode3(PrintMaxObjs)
    \/ NewResTarget0(PrintMaxObjs)
    \/ NewResTarget2(PrintMaxObjs)
    \/ NewResTargetAt(PrintMaxObjs)
    \/ NewOrderByNode(PrintMaxObjs)
    \/ NewWindowDefNode(PrintMaxObjs)
    \/ DoFillWindowSpection
    \/ NewFuncNode1(PrintMaxObjs)
    \/ NewFuncNode3(PrintMaxObjs)
    \/ NewSelectStmt(PrintMaxObjs)
    \/ DoFillSelectAttributions

SpecPrint == Init /\ [][PrintNext]_vars

(***************************************************************************)
(* Claims about the debug printer.                                         *)
(***************************************************************************)

\* C11 as stated: for every constructed node, the output of Print(output)
\* begins with the name of the node's kind, with nothing before it.
C11_PrintBeginsWithKindName ==
    \A p \in 1..nobj(heap) :
        Head(SQLNodePrintDefault(heap, p)) = NameOfSQLNodeType(heap.obj[p].type_)

\* C11, amended: for every constructed node, the output of Print(output)
\* begins with the default indentation SPACE_ST, "+", and the name of the
\* node's kind follows it directly.
C11_PrintBeginsWithSpaceStThenKindName ==
    \A p \in 1..nobj(heap) :
        LET out == SQLNodePrintDefault(heap, p)
        IN  /\ Len(out) >= Len(SPACE_ST) + 1
            /\ SubSeq(out, 1, Len(SPACE_ST)) = SPACE_ST
            /\ out[Len(SPACE_ST) + 1] = NameOfSQLNodeType(heap.obj[p].type_)

\* A node with a child node, both constructed and printable.
C11_Witness ==
    /\ call.op = "new"
    /\ heap.obj[call.p].cls = "FrameNode"
    /\ heap.obj[call.p].start_ \in 1..nobj(heap)
    /\ Len(SQLNodePrintDefault(heap, call.p)) > 2

\* LimitNode::GetLimitCount
GetLimitCount(H, p) == H.obj[p].limit_cnt_

\* The select statements that were given a present, empty select-target
\* list and a limit node.
SelectWithEmptyListAndLimit ==
    {p \in NodesOf("SelectStmt") :
        /\ heap.obj[p].select_list_ptr_ \in 1..nlists(heap)
        /\ Size(heap, heap.obj[p].select_list_ptr_) = 0
        /\ heap.obj[p].limit_ptr_ \in NodesOf("LimitNode")}

\* C12: the print of a select statement with a present, empty select-target
\* list and a limit node has the list as [] and the limit node with its
\* count.
C12_SelectPrintsListAndLimitCount ==
    \A p \in SelectWithEmptyListAndLimit :
        LET out == Range(SQLNodePrintDefault(heap, p))
        IN  /\ "[]" \in out
            /\ ToString(GetLimitCount(heap, heap.obj[p].limit_ptr_)) \in out

\* The part of C12 about the list alone: it is printed as [].
SelectPrintsEmptyList ==
    \A p \in SelectWithEmptyListAndLimit :
        "[]" \in Range(SQLNodePrintDefault(heap, p))

(***************************************************************************)
(* The representation of the list.                                         *)
(***************************************************************************)

\* C13: for every list the caller holds, head_ and tail_ are both NULL
\* exactly when the list has no elements, and otherwise tail_ is the last
\* linked node reached from head_ and its next_ is NULL.
C13_HeadTailConsistent ==
    \A l \in Live :
        LET s == Traverse(heap, l)
        IN  /\ (heap.head_[l] = NULL) <=> (heap.tail_[l] = NULL)
            /\ (heap.head_[l] = NULL) <=> (Size(heap, l) = 0)
            /\ s # << >> =>
                  /\ heap.tail_[l] = s[Len(s)]
                  /\ heap.next_[heap.tail_[l]] = NULL

====
